---- MODULE Spec2Model ----
(***************************************************************************)
(* Shape inference and forward pass of the architectural layers of         *)
(* Antipasti/layers/arch.py: ReplicateLayer, ConcatenateLayer, AddLayer,   *)
(* IdentityLayer and FunctionLayer.                                        *)
(*                                                                         *)
(* A Python method is modelled by an operator that yields its whole        *)
(* effect: the outcome (a return or the exception raised), the value       *)
(* returned, the layer object after the call (self) and the argument       *)
(* object after the call (lists are mutable in Python).                    *)
(*                                                                         *)
(* Outcomes: "ShapeError" is the ValueError or AssertionError with which   *)
(* infer_output_shape rejects a shape signature; "ConfigurationError" the  *)
(* ValueError or AssertionError with which a constructor rejects its       *)
(* arguments; "IndexError" and "TypeError" are the interpreter's own.      *)
(* The decorators utils.shape_inference and utils.forward_pass, and the    *)
(* base class Layer, are outside arch.py: the methods are modelled as they *)
(* are written in arch.py.                                                 *)
(***************************************************************************)
EXTENDS Integers, Sequences, FiniteSets, TLC

VARIABLES
    phase,       \* "new" | "constructed" | "failed": where the constructor stands
    ctor,        \* the arguments given to the constructor
    layer,       \* the layer object: its attributes
    built,       \* the layer object as the constructor left it
    given,       \* the shape signature the caller holds, as first handed over
    arg,         \* the same object now (it is passed to every infer_output_shape)
    op,          \* the last call: "none" | "__init__" | "infer_output_shape" | "feedforward"
    result,      \* [outcome, value] of the last call
    last_infer   \* "never" | "ok" | "failed": how the last infer_output_shape ended

vars == <<phase, ctor, layer, built, given, arg, op, result, last_infer>>

----------------------------------------------------------------------------
(* Bounds *)

Rank == 1             \* longest shape descriptor
Inputs == 2           \* most descriptors in one shape signature
AddInputs == 3        \* the same, of the signatures an AddLayer is given
ConcatRank == 3       \* the same two, of the signatures a ConcatenateLayer
ConcatInputs == 2     \*   is given
MaxReplicate == 3     \* largest num_replicate

(* Python values *)

\* None, an unknown dimension; known dimensions are positive
None == 0

KnownDims == {1, 2}

Dims == {None} \cup KnownDims

Max(a, b) == IF a > b THEN a ELSE b

Min(a, b) == IF a < b THEN a ELSE b

SeqsUpTo(S, n) == UNION {[1..k -> S] : k \in 0..n}

SeqsFromTo(S, m, n) == UNION {[1..k -> S] : k \in m..n}

Descriptors(r) == SeqsUpTo(Dims, r)

\* A shape signature: one descriptor (a list of dimensions), or a list of
\* descriptors. The empty list, which is both, is left out.
Single(d) == [multi |-> FALSE, shapes |-> <<d>>]

Multi(ds) == [multi |-> TRUE, shapes |-> ds]

Signatures(r, n) ==
    {Single(d) : d \in SeqsFromTo(Dims, 1, r)}
        \cup {Multi(ds) : ds \in SeqsFromTo(Descriptors(r), 1, n)}

NoValue == [multi |-> FALSE, shapes |-> <<>>]

Raise(error, self, input) ==
    [outcome |-> error, value |-> NoValue, self |-> self, input |-> input]

Return(value, self, input) ==
    [outcome |-> "ok", value |-> value, self |-> self, input |-> input]

\* s[:k]
SliceTo(s, k) ==
    LET n == Len(s)
        e == IF k < 0 THEN Max(n + k, 0) ELSE Min(k, n)
    IN  SubSeq(s, 1, e)

\* s[k:]
SliceFrom(s, k) ==
    LET n == Len(s)
        b == IF k < 0 THEN Max(n + k, 0) ELSE Min(k, n)
    IN  SubSeq(s, b + 1, n)

\* s[k] raises IndexError unless -len(s) <= k < len(s)
HasIndex(s, k) == (0 - Len(s)) <= k /\ k < Len(s)

Item(s, k) == IF k < 0 THEN s[Len(s) + k + 1] ELSE s[k + 1]

RECURSIVE sum(_)
sum(s) == IF s = <<>> THEN 0 ELSE Head(s) + sum(Tail(s))

\* [x] * n
Times(x, n) == [i \in 1..n |-> x]

----------------------------------------------------------------------------
(* Collaborators outside arch.py *)

\* utils.compare_shapes: same length and, position by position, equal known
\* dimensions or an unknown one on either side (in both modes)
compare_shapes(shape1, shape2, soft) ==
    /\ Len(shape1) = Len(shape2)
    /\ \A i \in 1..Len(shape1) :
          shape1[i] = None \/ shape2[i] = None \/ shape1[i] = shape2[i]

\* py.islistoflists
islistoflists(x) == x.multi

\* utils.get_input_shape: the canonical input shape of a layer with
\* `num_inputs` inputs of `dimensions` dimensions each, all of them unknown
get_input_shape(dimensions, num_inputs) ==
    IF num_inputs = 1 THEN Single(Times(None, dimensions))
    ELSE Multi(Times(Times(None, dimensions), num_inputs))

----------------------------------------------------------------------------
(* ReplicateLayer *)

ReplicateLayer_init(num_replicate, dimensions) ==
    [outcome |-> "ok",
     self |-> [kind |-> "ReplicateLayer",
               num_replicate |-> num_replicate,
               input_shape |-> get_input_shape(dimensions, 1)]]

ReplicateLayer_feedforward(self, input) ==
    Return(Times(input, self.num_replicate), self, input)

\* a slip: the shape is returned once, whatever num_replicate is
ReplicateLayer_infer_output_shape_once(self, input_shape) ==
    Return(Times(input_shape, 1), self, input_shape)

ReplicateLayer_infer_output_shape(self, input_shape) ==
    Return(Times(input_shape, self.num_replicate), self, input_shape)

----------------------------------------------------------------------------
(* ConcatenateLayer *)

SupportedAxes == {0, 1, 2, 3, 4, -1}

ConcatenateLayer_init(num_inputs, axis, dimensions) ==
    IF axis \notin SupportedAxes
    THEN [outcome |-> "ConfigurationError", self |-> [kind |-> "ConcatenateLayer"]]
    ELSE [outcome |-> "ok",
          self |-> [kind |-> "ConcatenateLayer",
                    axis |-> axis,
                    input_shape |-> get_input_shape(dimensions, num_inputs)]]

\* The consistency check of infer_output_shape; `and` does not evaluate its
\* right operand when the left one is false.
input_shape_ok(axis, input_shape) ==
    IF ~islistoflists(input_shape) THEN FALSE
    ELSE LET shapes == input_shape.shapes
         IN  IF axis = -1
             THEN \A i \in 1..Len(shapes) :
                     compare_shapes(SliceTo(shapes[i], axis),
                                    SliceTo(shapes[1], axis), FALSE)
             ELSE \A i \in 1..Len(shapes) :
                     compare_shapes(
                         SliceTo(shapes[i], axis) \o SliceFrom(shapes[i], axis + 1),
                         SliceTo(shapes[1], axis) \o SliceFrom(shapes[1], axis + 1),
                         FALSE)

\* a slip: the output is written into the first descriptor of the argument
\* (output_shape = input_shape[0]; output_shape[axis] = ...)
ConcatenateLayer_infer_output_shape_inplace(self, input_shape) ==
    LET axis == self.axis
        shapes == input_shape.shapes
    IN  IF ~input_shape_ok(axis, input_shape)
        THEN Raise("ShapeError", self, input_shape)
        ELSE IF \E i \in 1..Len(shapes) : ~HasIndex(shapes[i], axis)
        THEN Raise("IndexError", self, input_shape)
        ELSE LET along == [i \in 1..Len(shapes) |-> Item(shapes[i], axis)]
                 joined == IF \A i \in 1..Len(along) : along[i] # None
                           THEN sum(along) ELSE None
                 output_shape ==
                     SliceTo(shapes[1], axis) \o <<joined>>
                         \o (IF axis # -1 THEN SliceFrom(shapes[1], axis + 1)
                             ELSE <<>>)
             IN  Return(Single(output_shape), self,
                        [input_shape EXCEPT !.shapes[1] = output_shape])

ConcatenateLayer_infer_output_shape(self, input_shape) ==
    LET axis == self.axis
        shapes == input_shape.shapes
    IN  IF ~input_shape_ok(axis, input_shape)
        THEN Raise("ShapeError", self, input_shape)
        ELSE IF \E i \in 1..Len(shapes) : ~HasIndex(shapes[i], axis)
        THEN Raise("IndexError", self, input_shape)
        ELSE LET along == [i \in 1..Len(shapes) |-> Item(shapes[i], axis)]
                 joined == IF \A i \in 1..Len(along) : along[i] # None
                           THEN sum(along) ELSE None
                 output_shape ==
                     SliceTo(shapes[1], axis) \o <<joined>>
                         \o (IF axis # -1 THEN SliceFrom(shapes[1], axis + 1)
                             ELSE <<>>)
             IN  Return(Single(output_shape), self, input_shape)

\* A.concatenate belongs to the backend: it returns a tensor or fails there
ConcatenateLayer_feedforward(self, input, backend) ==
    IF backend = "ok" THEN Return(NoValue, self, input)
    ELSE Raise("BackendError", self, input)

----------------------------------------------------------------------------
(* AddLayer *)

AddLayer_init(num_inputs, dimensions) ==
    LET self == [kind |-> "AddLayer",
                 num_inputs |-> num_inputs,
                 input_shape |-> get_input_shape(dimensions, num_inputs)]
    IN  IF ~(self.num_inputs > 1)
        THEN [outcome |-> "ConfigurationError", self |-> self]
        ELSE [outcome |-> "ok", self |-> self]

\* a slip: the number of inputs is not compared with num_inputs
AddLayer_infer_output_shape_uncounted(self, input_shape) ==
    LET shapes == input_shape.shapes
    IN  IF ~islistoflists(input_shape)
        THEN Raise("ShapeError", self, input_shape)
        ELSE IF ~(\A i \in 1..Len(shapes) :
                     compare_shapes(shapes[i], shapes[1], TRUE))
        THEN Raise("ShapeError", self, input_shape)
        ELSE Return(Single(shapes[1]), self, input_shape)

AddLayer_infer_output_shape(self, input_shape) ==
    LET shapes == input_shape.shapes
    IN  IF ~islistoflists(input_shape)
        THEN Raise("ShapeError", self, input_shape)
        ELSE IF Len(shapes) # self.num_inputs
        THEN Raise("ShapeError", self, input_shape)
        ELSE IF ~(\A i \in 1..Len(shapes) :
                     compare_shapes(shapes[i], shapes[1], TRUE))
        THEN Raise("ShapeError", self, input_shape)
        ELSE Return(Single(shapes[1]), self, input_shape)

\* A.add_n belongs to the backend
AddLayer_feedforward(self, input, backend) ==
    IF backend = "ok" THEN Return(NoValue, self, input)
    ELSE Raise("BackendError", self, input)

----------------------------------------------------------------------------
(* IdentityLayer *)

IdentityLayer_init(dimensions) ==
    [outcome |-> "ok",
     self |-> [kind |-> "IdentityLayer",
               input_shape |-> get_input_shape(dimensions, 1)]]

IdentityLayer_feedforward(self, input) == Return(input, self, input)

IdentityLayer_infer_output_shape(self, input_shape) ==
    Return(input_shape, self, input_shape)

----------------------------------------------------------------------------
(* FunctionLayer *)

\* Python objects a caller may pass for `function` and
\* `shape_inference_function`: None, a string (not callable), functions
Absent == "None"

NotCallable == "a string"

UserFunctions == {"lambda x: 2 * x"}

\* shape functions of the user: every descriptor reversed; every dimension
\* made unknown
ShapeFunctions == {"reversed", "unknown"}

DefaultShapeInference == "lambda _input_shape: _input_shape"

callable(x) == x \in UserFunctions \cup ShapeFunctions \cup {DefaultShapeInference}

Reverse(d) == [i \in 1..Len(d) |-> d[Len(d) + 1 - i]]

\* f(input_shape), for the shape functions above
Call(f, input_shape) ==
    CASE f = DefaultShapeInference -> input_shape
      [] f = "reversed" ->
            [input_shape EXCEPT !.shapes =
                [i \in 1..Len(@) |-> Reverse(@[i])]]
      [] f = "unknown" ->
            [input_shape EXCEPT !.shapes =
                [i \in 1..Len(@) |-> Times(None, Len(@[i]))]]

\* `parameters`: None (the default) or a list of parameters
NoParameters == [none |-> TRUE, items |-> <<>>]

ParameterList(items) == [none |-> FALSE, items |-> items]

\* a slip: the default replaces the shape function the caller gave
StoredShapeInference_default(shape_inference_function) == DefaultShapeInference

\* the attribute shape_inference_function after construction
StoredShapeInference(shape_inference_function) ==
    IF shape_inference_function # Absent THEN shape_inference_function
    ELSE DefaultShapeInference

FunctionLayer_init(function, shape_inference_function, parameters, num_inputs, dimensions) ==
    LET new == [kind |-> "FunctionLayer"]
        assigned ==
            [kind |-> "FunctionLayer",
             function |-> function,
             shape_inference_function |->
                 StoredShapeInference(shape_inference_function),
             input_shape |-> get_input_shape(dimensions, num_inputs),
             parameters |-> <<>>]
    IN  IF ~callable(function)
        THEN [outcome |-> "ConfigurationError", self |-> new]
        ELSE IF shape_inference_function # Absent /\ ~callable(shape_inference_function)
        THEN [outcome |-> "ConfigurationError", self |-> new]
        ELSE IF parameters.none
        THEN \* for parameter in None
             [outcome |-> "TypeError", self |-> assigned]
        ELSE [outcome |-> "ok",
              self |-> [assigned EXCEPT !.parameters = parameters.items]]

\* self.function belongs to the user: it returns or raises
FunctionLayer_feedforward(self, input, user) ==
    IF user = "ok" THEN Return(NoValue, self, input)
    ELSE Raise("FunctionError", self, input)

FunctionLayer_infer_output_shape(self, input_shape) ==
    Return(Call(self.shape_inference_function, input_shape), self, input_shape)

----------------------------------------------------------------------------
(* The caller: it constructs one layer, then calls infer_output_shape on the
   shape signature it holds and feedforward on tensors, in any order *)

\* what feedforward is called on: one tensor, or a list of two (a tensor is
\* known here by its shape)
Tensors == {Single(<<1>>), Multi(<< <<1>>, <<2>> >>)}

Outcomes == {"ok", "raises"}

NoResult == [outcome |-> "none", value |-> NoValue, input |-> NoValue]

ReplicateArgs ==
    {[kind |-> "ReplicateLayer", num_replicate |-> n, dimensions |-> d] :
        n \in 1..MaxReplicate, d \in 1..Rank}

ConcatenateArgs ==
    {[kind |-> "ConcatenateLayer", num_inputs |-> 2, axis |-> a, dimensions |-> ConcatRank] :
        a \in SupportedAxes \cup {5}}

AddArgs ==
    {[kind |-> "AddLayer", num_inputs |-> n, dimensions |-> Rank] :
        n \in 1..AddInputs}

IdentityArgs ==
    {[kind |-> "IdentityLayer", dimensions |-> d] : d \in 1..Rank}

FunctionArgs ==
    {[kind |-> "FunctionLayer", function |-> f, shape_inference_function |-> g,
      parameters |-> p, num_inputs |-> 1, dimensions |-> Rank] :
        f \in UserFunctions \cup {NotCallable},
        g \in ShapeFunctions \cup {Absent, NotCallable},
        p \in {NoParameters, ParameterList(<<>>), ParameterList(<<"w">>)}}

InitWith(args, signatures) ==
    /\ phase = "new"
    /\ ctor \in args
    /\ layer = [kind |-> ctor.kind]
    /\ built = layer
    /\ given \in signatures
    /\ arg = given
    /\ op = "none"
    /\ result = NoResult
    /\ last_infer = "never"

Constructed(r) ==
    /\ phase' = IF r.outcome = "ok" THEN "constructed" ELSE "failed"
    /\ layer' = r.self
    /\ built' = r.self
    /\ op' = "__init__"
    /\ result' = [outcome |-> r.outcome, value |-> NoValue, input |-> NoValue]
    /\ UNCHANGED <<ctor, given, arg, last_infer>>

Inferred(r) ==
    /\ layer' = r.self
    /\ arg' = r.input
    /\ op' = "infer_output_shape"
    /\ result' = [outcome |-> r.outcome, value |-> r.value, input |-> arg]
    /\ last_infer' = IF r.outcome = "ok" THEN "ok" ELSE "failed"
    /\ UNCHANGED <<phase, ctor, built, given>>

Fed(r, x) ==
    /\ layer' = r.self
    /\ op' = "feedforward"
    /\ result' = [outcome |-> r.outcome, value |-> r.value, input |-> x]
    /\ UNCHANGED <<phase, ctor, built, given, arg, last_infer>>

New(kind) == phase = "new" /\ ctor.kind = kind

Alive(kind) == phase = "constructed" /\ layer.kind = kind

ReplicateConstruct ==
    /\ New("ReplicateLayer")
    /\ Constructed(ReplicateLayer_init(ctor.num_replicate, ctor.dimensions))

ReplicateInfer ==
    /\ Alive("ReplicateLayer")
    /\ Inferred(ReplicateLayer_infer_output_shape(layer, arg))

ReplicateFeedforward ==
    /\ Alive("ReplicateLayer")
    /\ \E x \in Tensors : Fed(ReplicateLayer_feedforward(layer, x), x)

ConcatenateConstruct ==
    /\ New("ConcatenateLayer")
    /\ Constructed(ConcatenateLayer_init(ctor.num_inputs, ctor.axis, ctor.dimensions))

ConcatenateInfer ==
    /\ Alive("ConcatenateLayer")
    /\ Inferred(ConcatenateLayer_infer_output_shape(layer, arg))

\* a slip: feedforward insists on a successful infer_output_shape before it
ConcatenateFeedforward_validated ==
    /\ Alive("ConcatenateLayer")
    /\ last_infer = "ok"
    /\ \E x \in Tensors, backend \in Outcomes :
          Fed(ConcatenateLayer_feedforward(layer, x, backend), x)

ConcatenateFeedforward ==
    /\ Alive("ConcatenateLayer")
    /\ \E x \in Tensors, backend \in Outcomes :
          Fed(ConcatenateLayer_feedforward(layer, x, backend), x)

AddConstruct ==
    /\ New("AddLayer")
    /\ Constructed(AddLayer_init(ctor.num_inputs, ctor.dimensions))

AddInfer ==
    /\ Alive("AddLayer")
    /\ Inferred(AddLayer_infer_output_shape(layer, arg))

AddFeedforward ==
    /\ Alive("AddLayer")
    /\ \E x \in Tensors, backend \in Outcomes :
          Fed(AddLayer_feedforward(layer, x, backend), x)

IdentityConstruct ==
    /\ New("IdentityLayer")
    /\ Constructed(IdentityLayer_init(ctor.dimensions))

IdentityInfer ==
    /\ Alive("IdentityLayer")
    /\ Inferred(IdentityLayer_infer_output_shape(layer, arg))

IdentityFeedforward ==
    /\ Alive("IdentityLayer")
    /\ \E x \in Tensors : Fed(IdentityLayer_feedforward(layer, x), x)

FunctionConstruct ==
    /\ New("FunctionLayer")
    /\ Constructed(FunctionLayer_init(ctor.function, ctor.shape_inference_function,
                                      ctor.parameters, ctor.num_inputs,
                                      ctor.dimensions))

FunctionInfer ==
    /\ Alive("FunctionLayer")
    /\ Inferred(FunctionLayer_infer_output_shape(layer, arg))

FunctionFeedforward ==
    /\ Alive("FunctionLayer")
    /\ \E x \in Tensors, user \in Outcomes :
          Fed(FunctionLayer_feedforward(layer, x, user), x)

----------------------------------------------------------------------------
(* Specifications: one per layer, and one of all layers *)

InitReplicate == InitWith(ReplicateArgs, Signatures(Rank, Inputs))

NextReplicate == ReplicateConstruct \/ ReplicateInfer \/ ReplicateFeedforward

SpecReplicate == InitReplicate /\ [][NextReplicate]_vars

InitConcatenate == InitWith(ConcatenateArgs, Signatures(ConcatRank, ConcatInputs))

NextConcatenate == ConcatenateConstruct \/ ConcatenateInfer \/ ConcatenateFeedforward

SpecConcatenate == InitConcatenate /\ [][NextConcatenate]_vars

InitAdd == InitWith(AddArgs, Signatures(Rank, AddInputs))

NextAdd == AddConstruct \/ AddInfer \/ AddFeedforward

SpecAdd == InitAdd /\ [][NextAdd]_vars

InitFunction == InitWith(FunctionArgs, Signatures(Rank, Inputs))

NextFunction == FunctionConstruct \/ FunctionInfer \/ FunctionFeedforward

SpecFunction == InitFunction /\ [][NextFunction]_vars

Feedforward ==
    \/ ReplicateFeedforward
    \/ ConcatenateFeedforward
    \/ AddFeedforward
    \/ IdentityFeedforward
    \/ FunctionFeedforward

Init ==
    InitWith(ReplicateArgs \cup ConcatenateArgs \cup AddArgs \cup IdentityArgs
                 \cup FunctionArgs,
             Signatures(Rank, Inputs))

Next ==
    \/ ReplicateConstruct
    \/ ReplicateInfer
    \/ ConcatenateConstruct
    \/ ConcatenateInfer
    \/ AddConstruct
    \/ AddInfer
    \/ IdentityConstruct
    \/ IdentityInfer
    \/ FunctionConstruct
    \/ FunctionInfer
    \/ Feedforward

Spec == Init /\ [][Next]_vars

----------------------------------------------------------------------------
(* Properties *)

After(kind, call) == phase = "constructed" /\ layer.kind = kind /\ op = call

\* same length and, at each position, equal known values or an unknown one
SoftCompatible(a, b) ==
    /\ Len(a) = Len(b)
    /\ \A j \in 1..Len(a) : a[j] = None \/ b[j] = None \/ a[j] = b[j]

\* the position of a descriptor of length n that axis k names
Position(k, n) == IF k = -1 THEN n ELSE k + 1

\* C1: for a ConcatenateLayer of axis k and an input that passes its
\* validation, infer_output_shape returns the first descriptor with the entry
\* at position k replaced by the sum of all inputs' entries there, or by
\* Unknown when some input has Unknown there.
C1_ConcatenateOutput ==
    (After("ConcatenateLayer", "infer_output_shape")
        /\ input_shape_ok(ctor.axis, result.input))
    => LET shapes == result.input.shapes
           first == shapes[1]
           at(i) == shapes[i][Position(ctor.axis, Len(shapes[i]))]
           RECURSIVE total(_)
           total(i) == IF i = 0 THEN 0 ELSE at(i) + total(i - 1)
           entry == IF \E i \in 1..Len(shapes) : at(i) = None THEN None
                    ELSE total(Len(shapes))
       IN  /\ result.outcome = "ok"
           /\ result.value =
                 Single([j \in 1..Len(first) |->
                            IF j = Position(ctor.axis, Len(first)) THEN entry
                            ELSE first[j]])

\* C2: ConcatenateLayer.infer_output_shape fails with ShapeError whenever its
\* argument is not a list of descriptors, or some descriptor differs from the
\* first in length or in a known value at a position other than the axis.
C2_ConcatenateRejects ==
    After("ConcatenateLayer", "infer_output_shape")
    => LET shapes == result.input.shapes
           first == shapes[1]
           differs(d) ==
               \/ Len(d) # Len(first)
               \/ \E j \in 1..Len(d) :
                     /\ j # Position(ctor.axis, Len(d))
                     /\ d[j] # None /\ first[j] # None /\ d[j] # first[j]
       IN  (~result.input.multi \/ \E i \in 1..Len(shapes) : differs(shapes[i]))
           => result.outcome = "ShapeError"

\* C10: ConcatenateLayer.infer_output_shape either returns an output shape or
\* fails with ShapeError, also when the axis is no position of some input.
C10_ConcatenateOutcomes ==
    After("ConcatenateLayer", "infer_output_shape")
    => result.outcome \in {"ok", "ShapeError"}

C4_AddPairwise ==
    (After("AddLayer", "infer_output_shape") /\ result.outcome = "ok")
    => \A i, j \in 1..Len(result.input.shapes) :
          SoftCompatible(result.input.shapes[i], result.input.shapes[j])

\* C5: constructing a FunctionLayer fails with a configuration error when
\* `function` is not callable or `shape_inference_function` is neither None
\* nor callable, and succeeds in every other case, `parameters` omitted or not.
C5_FunctionConstruction ==
    (ctor.kind = "FunctionLayer" /\ op = "__init__")
    => IF \/ ~callable(ctor.function)
          \/ (ctor.shape_inference_function # Absent
                /\ ~callable(ctor.shape_inference_function))
       THEN result.outcome = "ConfigurationError" /\ phase = "failed"
       ELSE result.outcome = "ok" /\ phase = "constructed"

\* C6: a FunctionLayer built without a shape_inference_function infers its
\* input shape unchanged and reports no error; built with one, f, it infers
\* f(input shape).
C6_FunctionInfers ==
    After("FunctionLayer", "infer_output_shape")
    => /\ result.outcome = "ok"
       /\ result.value =
             IF ctor.shape_inference_function = Absent THEN result.input
             ELSE Call(ctor.shape_inference_function, result.input)

C6_Witness ==
    /\ After("FunctionLayer", "infer_output_shape")
    /\ ctor.shape_inference_function = Absent
    /\ result.input = Multi(<< <<1>>, <<2>> >>)
    /\ result.value = result.input

\* C7: a ReplicateLayer's infer_output_shape(s) is num_replicate times s and
\* its feedforward(x) num_replicate times x.
C7_Replicates ==
    (After("ReplicateLayer", "infer_output_shape")
        \/ After("ReplicateLayer", "feedforward"))
    => /\ result.outcome = "ok"
       /\ Len(result.value) = ctor.num_replicate
       /\ \A i \in 1..Len(result.value) : result.value[i] = result.input

C7_Witness ==
    /\ After("ReplicateLayer", "infer_output_shape")
    /\ ctor.num_replicate = MaxReplicate
    /\ result.input = Single(<<None>>)
    /\ Len(result.value) = MaxReplicate

\* C8: feedforward can be called in every state of a constructed layer,
\* whether infer_output_shape was never called, succeeded or failed, and it
\* raises no ShapeError.
C8_FeedforwardAnyTime ==
    /\ phase = "constructed" => ENABLED Feedforward
    /\ op = "feedforward" => result.outcome # "ShapeError"

C8_Witness ==
    /\ phase = "constructed"
    /\ op = "feedforward"
    /\ last_infer = "failed"
    /\ result.outcome = "ok"

\* C9: no call of infer_output_shape or feedforward, failing or not, changes
\* the layer's input_shape or configuration, or the shape signature passed.
C9_NothingChanges ==
    phase = "constructed" => layer = built /\ arg = given

C9_Witness ==
    /\ After("ConcatenateLayer", "infer_output_shape")
    /\ result.outcome = "ShapeError"
    /\ given = Multi(<< <<1>>, <<>> >>)

====
